---- MODULE Spec2Model ----
(***************************************************************************)
(* A model of the similarity index and suggestion engine of the Jira AI    *)
(* ticket organizer:                                                       *)
(*   - InMemoryVectorStore        (src/app/storage/vector_store.py)        *)
(*   - the processed_events ledger (src/app/storage/database.py)           *)
(*   - the Jira webhook handler    (src/app/webhooks.py)                   *)
(*   - IssueOrganizer.suggest_epic, suggest_labels, suggest_components     *)
(*                                 (src/app/services/organizer.py)         *)
(*   - VectorDatabase.add_issue and search_similar                         *)
(*                                 (src/app/storage/database.py)           *)
(* Each component has its own specification: Spec (the store), SpecMixed   *)
(* (the store fed vectors of two lengths), SpecLedger, SpecWebhook,        *)
(* SpecSuggest, SpecTags, SpecDurable and SpecThreads (the store called    *)
(* from several threads, one statement at a time); the variables of the    *)
(* other components stay as Init leaves them.                              *)
(*                                                                         *)
(* Numbers.  Embeddings are vectors of integers.  A similarity is the      *)
(* float  dot(row, q / (|q| + 1e-8)); it is kept as the exact rational     *)
(* [num |-> dot(row, q), den |-> |q|], and as 0/1 for the zero query       *)
(* (0 / 1e-8 = 0).  Query vectors are chosen with an integer norm.  The    *)
(* 1e-8 term is below the resolution of these rationals when |q| > 0.      *)
(* Scores handed to the suggestion functions are integers in tenths; a     *)
(* confidence is the rational of two such sums.                            *)
(***************************************************************************)
EXTENDS Integers, Sequences, FiniteSets

VARIABLES
    issues,             \* _issues: the dict, as the sequence of its records in insertion order
    embeddings_matrix,  \* _embeddings_matrix: sequence of rows, NoMatrix for None
    issue_keys_order,   \* _issue_keys_order
    needs_rebuild,      \* _needs_rebuild
    fresh,              \* history: keys added since the last call of _rebuild_matrix
    replaced,           \* history: per key, how it was last re-added with another embedding
    deleted,            \* history: per key, how it was last deleted (and not added since)
    processed_events,   \* rows of the processed_events table, in rowid order
    marked,             \* history: event ids mark_event_processed has been called with
    background_tasks,   \* FastAPI BackgroundTasks: per issue key, the tasks added and not yet run
    delivered,          \* history: per event, the number of deliveries to the webhook
    scheduled,          \* history: per event, the number of processing tasks scheduled
    task_log,           \* the log: per issue key, the info and error lines of its tasks
    similar_issues,     \* the neighbor sequence handed to the suggestion functions
    db_issues,          \* committed rows of the issues table, in rowid order
    index,              \* the FAISS index in memory: its vectors in the order they were added
    index_file,         \* faiss.index on disk, as save_index last wrote it
    cursor,             \* self.cursor, shared by every caller: its lastrowid
    add_pc,             \* per caller, where its VectorDatabase.add_issue call stands
    durable_hist,       \* history: add_issue calls begun, keys re-used, calls cut short
    search,             \* per searching thread: its place in find_similar and its locals
    writer,             \* the writing thread: its place in add_issue or delete_issue
    lastOp,             \* the last call and its arguments
    ret                 \* what the last call returned

storeVars   == <<issues, embeddings_matrix, issue_keys_order, needs_rebuild,
                 fresh, replaced, deleted>>
ledgerVars  == <<processed_events, marked>>
webhookVars == <<background_tasks, delivered, scheduled, task_log>>
suggestVars == <<similar_issues>>
durableVars == <<db_issues, index, index_file, cursor, add_pc, durable_hist>>
threadVars == <<search, writer>>
vars == <<storeVars, ledgerVars, webhookVars, suggestVars, durableVars, threadVars,
          lastOp, ret>>

----------------------------------------------------------------------------
(* Bounds and input sets *)

MaxK == 2           \* largest top_k passed to find_similar

MaxEvents == 2      \* distinct event ids offered to the ledger
MaxDeliveries == 2  \* deliveries of one external event to the webhook
MaxNeighbors == 3   \* longest neighbor sequence handed to suggest_epic

Keys == {"A", "B"}
Searchers == {"s1", "s2"}
Callers == {"w1", "w2"}
Vectors == {<<1, 0>>, <<0, 1>>}
Queries == {<<-1, 0>>, <<0, 0>>, <<3, 4>>}

EventNames == <<"evt-1", "evt-2", "evt-3", "evt-4">>
EventIds == {EventNames[i] : i \in 1..MaxEvents}
EventTypes == {"jira:issue_created", "jira:issue_updated"}

None == "None"

\* External change events, each with the payload Jira posts for it.  The
\* payload carries no event id: "id" names the event for the history only.
\* issue is the value of payload["issue"]: a dict with its key, or null.
ExternalEvents ==
    {[id |-> "evt-1", webhookEvent |-> "jira:issue_created", issue |-> [key |-> "A"]],
     [id |-> "evt-2", webhookEvent |-> "jira:issue_updated", issue |-> [key |-> "B"]],
     [id |-> "evt-3", webhookEvent |-> "jira:issue_deleted", issue |-> [key |-> "A"]],
     [id |-> "evt-4", webhookEvent |-> "jira:issue_updated", issue |-> [key |-> None]],
     [id |-> "evt-5", webhookEvent |-> "jira:issue_updated", issue |-> [null |-> TRUE]]}

ExternalEventIds == {e.id : e \in ExternalEvents}

\* Neighbors as find_similar returns them: a record, of which the suggestion
\* functions read the epic_key, and a score in tenths
EpicKeys == {None, "", "E1", "E2"}
Scores == {-5, 0, 5, 9}
Neighbors == [record : [epic_key : EpicKeys], similarity : Scores]

RECURSIVE SeqsUpTo(_, _)
SeqsUpTo(S, n) ==
    IF n = 0 THEN {<<>>}
    ELSE LET shorter == SeqsUpTo(S, n - 1)
         IN shorter \cup {Append(q, x) : q \in shorter, x \in S}

NeighborSeqs == SeqsUpTo(Neighbors, MaxNeighbors)

NoMatrix == <<>>    \* np.vstack never yields a matrix of zero rows, so <<>> is free for None

NoCall == [op |-> "init"]
NoRet  == [kind |-> "None"]

----------------------------------------------------------------------------
(* Python dict and numpy helpers *)

Range(s) == {s[i] : i \in 1..Len(s)}

Reverse(s) == [i \in 1..Len(s) |-> s[Len(s) + 1 - i]]

RemoveAt(s, i) == [j \in 1..(Len(s) - 1) |-> IF j < i THEN s[j] ELSE s[j + 1]]

\* list(d.keys())
DictKeys(d) == [i \in 1..Len(d) |-> d[i].issue_key]

\* key in d
DictHas(d, key) == \E i \in 1..Len(d) : d[i].issue_key = key

\* d[key]
DictGet(d, key) == d[CHOOSE i \in 1..Len(d) : d[i].issue_key = key]

\* d[rec.issue_key] = rec: an existing key keeps its place, a new key goes last
DictSet(d, rec) ==
    IF DictHas(d, rec.issue_key)
    THEN [i \in 1..Len(d) |-> IF d[i].issue_key = rec.issue_key THEN rec ELSE d[i]]
    ELSE Append(d, rec)

\* del d[key]
DictDel(d, key) == RemoveAt(d, CHOOSE i \in 1..Len(d) : d[i].issue_key = key)

RECURSIVE Dot(_, _)
Dot(u, v) == IF u = <<>> \/ v = <<>> THEN 0
             ELSE Head(u) * Head(v) + Dot(Tail(u), Tail(v))

\* np.linalg.norm, exact on the query set
Norm(v) == LET d == Dot(v, v) IN CHOOSE n \in 0..d : n * n = d

\* float(np.dot(row, q / (norm(q) + 1e-8)))
Similarity(row, q) ==
    LET n == Norm(q)
    IN IF n = 0 THEN [num |-> 0, den |-> 1]
       ELSE [num |-> Dot(row, q), den |-> n]

\* a <= b on similarities (denominators are positive)
SimLeq(a, b) == a.num * b.den <= b.num * a.den

IndexOrders(n) == {p \in [1..n -> 1..n] : \A i, j \in 1..n : p[i] = p[j] => i = j}

\* np.argsort(similarities): any index order that sorts ascending.  The
\* default kind is not stable, so the order of equal values is not fixed.
ArgSorts(sims) ==
    {p \in IndexOrders(Len(sims)) :
        \A i, j \in 1..Len(sims) : i < j => SimLeq(sims[p[i]], sims[p[j]])}

----------------------------------------------------------------------------
(* InMemoryVectorStore *)

IssueRecords == [issue_key : Keys, embedding : Vectors]

\* count()
count == Len(issues)

\* add_issue that forgets to mark the matrix stale
add_issue_NoDirty(issue) ==
    /\ issues' = DictSet(issues, issue)
    /\ UNCHANGED <<needs_rebuild, embeddings_matrix, issue_keys_order>>
    /\ ret' = NoRet

\* add_issue: the record replaces the one under its key, the matrix goes stale
add_issue(issue) ==
    /\ issues' = DictSet(issues, issue)
    /\ needs_rebuild' = TRUE
    /\ UNCHANGED <<embeddings_matrix, issue_keys_order>>
    /\ ret' = NoRet

\* delete_issue that reports success and marks the matrix stale but keeps the record
delete_issue_KeepsRecord(issue_key) ==
    IF DictHas(issues, issue_key)
    THEN /\ needs_rebuild' = TRUE
         /\ UNCHANGED <<issues, embeddings_matrix, issue_keys_order>>
         /\ ret' = [kind |-> "bool", val |-> TRUE]
    ELSE /\ UNCHANGED <<issues, needs_rebuild, embeddings_matrix, issue_keys_order>>
         /\ ret' = [kind |-> "bool", val |-> FALSE]

\* delete_issue that marks the matrix stale whether or not the key was there
delete_issue_AlwaysDirty(issue_key) ==
    IF DictHas(issues, issue_key)
    THEN /\ issues' = DictDel(issues, issue_key)
         /\ needs_rebuild' = TRUE
         /\ UNCHANGED <<embeddings_matrix, issue_keys_order>>
         /\ ret' = [kind |-> "bool", val |-> TRUE]
    ELSE /\ needs_rebuild' = TRUE
         /\ UNCHANGED <<issues, embeddings_matrix, issue_keys_order>>
         /\ ret' = [kind |-> "bool", val |-> FALSE]

\* delete_issue: true and stale when the key was there, false and untouched otherwise
delete_issue(issue_key) ==
    IF DictHas(issues, issue_key)
    THEN /\ issues' = DictDel(issues, issue_key)
         /\ needs_rebuild' = TRUE
         /\ UNCHANGED <<embeddings_matrix, issue_keys_order>>
         /\ ret' = [kind |-> "bool", val |-> TRUE]
    ELSE /\ UNCHANGED <<issues, needs_rebuild, embeddings_matrix, issue_keys_order>>
         /\ ret' = [kind |-> "bool", val |-> FALSE]

\* clear
clear ==
    /\ issues' = <<>>
    /\ embeddings_matrix' = NoMatrix
    /\ issue_keys_order' = <<>>
    /\ needs_rebuild' = TRUE
    /\ ret' = NoRet

\* The matrix, key list and flag as they are
CurrentMatrix ==
    [matrix |-> embeddings_matrix, keys |-> issue_keys_order, dirty |-> needs_rebuild,
     error |-> "None"]

\* np.vstack raises ValueError on rows of different lengths
Ragged(embeddings) ==
    \E i, j \in 1..Len(embeddings) : Len(embeddings[i]) # Len(embeddings[j])

\* _rebuild_matrix: what it leaves in the matrix, the key list and the flag.
\* On an empty store it returns before clearing the flag.  When np.vstack
\* raises (line 94) the key list of line 92 is already assigned, the matrix
\* and the flag are not.
rebuild_matrix ==
    LET embeddings == [i \in 1..Len(issues) |-> issues[i].embedding] IN
    IF Len(issues) = 0
    THEN [matrix |-> NoMatrix, keys |-> <<>>, dirty |-> needs_rebuild, error |-> "None"]
    ELSE IF Ragged(embeddings)
    THEN [matrix |-> embeddings_matrix, keys |-> DictKeys(issues),
          dirty |-> needs_rebuild, error |-> "ValueError"]
    ELSE [matrix |-> embeddings,
          keys   |-> DictKeys(issues),
          dirty  |-> FALSE,
          error  |-> "None"]

\* find_similar without the stale check
AfterStaleCheck_NoRebuild == CurrentMatrix

\* find_similar, lines 111-112: rebuild when stale
AfterStaleCheck == IF needs_rebuild THEN rebuild_matrix ELSE CurrentMatrix

\* np.dot(matrix, query_norm.T) needs as many columns as the query has entries
Aligned(matrix, query_embedding) ==
    \A i \in 1..Len(matrix) : Len(matrix[i]) = Len(query_embedding)

\* np.dot(matrix, query_norm.T).flatten()
Similarities(matrix, query_embedding) ==
    [i \in 1..Len(matrix) |-> Similarity(matrix[i], query_embedding)]

\* argsort without the reversal
TopIndices_Ascending(order) == order

\* np.argsort(similarities)[::-1]
TopIndices(order) == Reverse(order)

\* a loop that ignores exclude_keys
Excluded_Never(issue_key, exclude_set) == FALSE

\* issue_key not in exclude_set, negated
Excluded(issue_key, exclude_set) == issue_key \in exclude_set

\* The loop of find_similar, lines 131-139, and the return of line 141
RECURSIVE CollectResults(_, _, _, _, _, _)
CollectResults(top_indices, similarities, keys, exclude_set, top_k, results) ==
    IF top_indices = <<>> THEN [kind |-> "list", val |-> results]
    ELSE LET idx == Head(top_indices) IN
         IF idx > Len(keys) THEN [kind |-> "IndexError"]
         ELSE LET issue_key == keys[idx] IN
              IF Excluded(issue_key, exclude_set)
              THEN CollectResults(Tail(top_indices), similarities, keys,
                                  exclude_set, top_k, results)
              ELSE IF ~DictHas(issues, issue_key) THEN [kind |-> "KeyError"]
              ELSE LET r == Append(results,
                                   [record     |-> DictGet(issues, issue_key),
                                    similarity |-> similarities[idx]])
                   IN IF Len(r) >= top_k THEN [kind |-> "list", val |-> r]
                      ELSE CollectResults(Tail(top_indices), similarities, keys,
                                          exclude_set, top_k, r)

\* find_similar; order is what np.argsort returned on the similarities
find_similar(query_embedding, top_k, exclude_keys, order) ==
    LET b == AfterStaleCheck
        similarities == Similarities(b.matrix, query_embedding)
    IN /\ embeddings_matrix' = b.matrix
       /\ issue_keys_order' = b.keys
       /\ needs_rebuild' = b.dirty
       /\ UNCHANGED issues
       /\ ret' = IF b.error # "None" THEN [kind |-> b.error]
                 ELSE IF b.matrix = NoMatrix \/ Len(issues) = 0
                 THEN [kind |-> "list", val |-> <<>>]
                 ELSE IF ~Aligned(b.matrix, query_embedding)
                 THEN [kind |-> "ValueError"]
                 ELSE CollectResults(TopIndices(order), similarities, b.keys,
                                     exclude_keys, top_k, <<>>)

----------------------------------------------------------------------------
(* Calls on the store, one at a time, with the history they leave *)

NoHistory == [k \in Keys |-> "no"]

HasRow(key) == key \in Range(issue_keys_order)

AddIssueOf(records) ==
    \E issue \in records :
        /\ add_issue(issue)
        /\ fresh' = fresh \cup {issue.issue_key}
        /\ replaced' =
             IF /\ DictHas(issues, issue.issue_key)
                /\ DictGet(issues, issue.issue_key).embedding # issue.embedding
             THEN [replaced EXCEPT ![issue.issue_key] =
                       IF HasRow(issue.issue_key) THEN "built" ELSE "unbuilt"]
             ELSE replaced
        /\ deleted' = [deleted EXCEPT ![issue.issue_key] = "no"]
        /\ lastOp' = [op |-> "add_issue",
                      existed |-> DictHas(issues, issue.issue_key),
                      count_before |-> count]

AddIssue == AddIssueOf(IssueRecords)

DeleteIssue ==
    \E issue_key \in Keys :
        /\ delete_issue(issue_key)
        /\ IF DictHas(issues, issue_key)
           THEN /\ fresh' = fresh \ {issue_key}
                /\ replaced' = [replaced EXCEPT ![issue_key] = "no"]
                /\ deleted' = [deleted EXCEPT ![issue_key] =
                                   IF HasRow(issue_key) THEN "built" ELSE "unbuilt"]
           ELSE UNCHANGED <<fresh, replaced, deleted>>
        /\ lastOp' = [op |-> "delete_issue", existed |-> DictHas(issues, issue_key)]

Clear ==
    /\ clear
    /\ fresh' = {}
    /\ replaced' = NoHistory
    /\ UNCHANGED deleted
    /\ lastOp' = [op |-> "clear"]

FindSimilarOf(queries, ks, excludes) ==
    \E query_embedding \in queries, top_k \in ks, exclude_keys \in excludes :
        \E order \in ArgSorts(Similarities(AfterStaleCheck.matrix, query_embedding)) :
            /\ find_similar(query_embedding, top_k, exclude_keys, order)
            /\ fresh' = IF needs_rebuild /\ AfterStaleCheck.error = "None"
                        THEN {} ELSE fresh
            /\ UNCHANGED <<replaced, deleted>>
            /\ lastOp' = [op |-> "find_similar", query |-> query_embedding,
                          top_k |-> top_k, exclude |-> exclude_keys,
                          fresh |-> fresh]

FindSimilar == FindSimilarOf(Queries, 0..MaxK, SUBSET Keys)

----------------------------------------------------------------------------
(* Specification of the transient store *)

StoreInit ==
    /\ issues = <<>>
    /\ embeddings_matrix = NoMatrix
    /\ issue_keys_order = <<>>
    /\ needs_rebuild = TRUE
    /\ fresh = {}
    /\ replaced = NoHistory
    /\ deleted = NoHistory

LedgerInit ==
    /\ processed_events = <<>>
    /\ marked = [e \in EventIds |-> [calls |-> 0]]

DurableInit ==
    /\ db_issues = <<>>
    /\ index = <<>>
    /\ index_file = <<>>
    /\ cursor = [lastrowid |-> 0]
    /\ add_pc = [c \in Callers |-> [at |-> "idle"]]
    /\ durable_hist = [adds |-> 0, reused |-> FALSE, interrupted |-> 0]

\* No thread has called anything yet
IdleSearch ==
    [pc |-> "idle", embeddings |-> <<>>, similarities |-> <<>>, top_indices |-> <<>>,
     issue_key |-> "", results |-> <<>>, outcome |-> "None"]

ThreadInit ==
    /\ search = [t \in Searchers |-> IdleSearch]
    /\ writer = [pc |-> "idle", issue_key |-> "", added |-> {}, removed |-> {}]

WebhookInit ==
    /\ background_tasks = [k \in Keys |-> 0]
    /\ delivered = [id \in ExternalEventIds |-> 0]
    /\ scheduled = [id \in ExternalEventIds |-> 0]
    /\ task_log = [k \in Keys |-> [info |-> 0, error |-> 0]]

Init ==
    /\ StoreInit
    /\ LedgerInit
    /\ WebhookInit
    /\ DurableInit
    /\ ThreadInit
    /\ similar_issues = <<>>
    /\ lastOp = NoCall
    /\ ret = NoRet

Next ==
    \/ AddIssue /\ UNCHANGED <<ledgerVars, webhookVars, suggestVars, durableVars, threadVars>>
    \/ DeleteIssue /\ UNCHANGED <<ledgerVars, webhookVars, suggestVars, durableVars, threadVars>>
    \/ Clear /\ UNCHANGED <<ledgerVars, webhookVars, suggestVars, durableVars, threadVars>>
    \/ FindSimilar /\ UNCHANGED <<ledgerVars, webhookVars, suggestVars, durableVars, threadVars>>

Spec == Init /\ [][Next]_vars

----------------------------------------------------------------------------
(* Properties of the transient store *)

AfterFindSimilar == lastOp.op = "find_similar"

ReturnedKeys == {ret.val[i].record.issue_key : i \in 1..Len(ret.val)}

\* The similarity of the record now stored under key to the last query
StoredSimilarity(key) == Similarity(DictGet(issues, key).embedding, lastOp.query)

\* C1: after any sequence of add_issue calls (and of the other calls),
\* the scores find_similar returns are non-increasing from first to last.
C1_ScoresNonIncreasing ==
    (AfterFindSimilar /\ ret.kind = "list") =>
        \A i \in 1..(Len(ret.val) - 1) :
            SimLeq(ret.val[i + 1].similarity, ret.val[i].similarity)

\* A search that returned two records of different scores
C1_Witness ==
    /\ AfterFindSimilar
    /\ ret.kind = "list"
    /\ Len(ret.val) = 2
    /\ ~SimLeq(ret.val[1].similarity, ret.val[2].similarity)

\* C2: find_similar never returns a record whose issue_key is in
\* exclude_keys, also when that record is the closest to the query.
C2_ExcludedNeverReturned ==
    (AfterFindSimilar /\ ret.kind = "list") =>
        \A i \in 1..Len(ret.val) : ret.val[i].record.issue_key \notin lastOp.exclude

\* A search that excluded the stored record strictly closest to the query
\* and returned another one
C2_Witness ==
    /\ AfterFindSimilar
    /\ ret.kind = "list"
    /\ Len(ret.val) >= 1
    /\ lastOp.top_k >= 1
    /\ \E x \in lastOp.exclude :
          /\ DictHas(issues, x)
          /\ \A y \in Range(DictKeys(issues)) \ {x} :
                ~SimLeq(StoredSimilarity(x), StoredSimilarity(y))

\* C3: after add_issue on a key already stored, every later find_similar
\* scores that key with the embedding now stored and returns the key at
\* most once; and count() is what it was before that add_issue.
C3_ReaddReplaces ==
    /\ (AfterFindSimilar /\ ret.kind = "list") =>
          /\ \A i \in 1..Len(ret.val) :
                ret.val[i].similarity =
                    Similarity(ret.val[i].record.embedding, lastOp.query)
          /\ \A i, j \in 1..Len(ret.val) :
                ret.val[i].record.issue_key = ret.val[j].record.issue_key => i = j
          /\ \A i \in 1..Len(ret.val) :
                ret.val[i].record = DictGet(issues, ret.val[i].record.issue_key)
    /\ (lastOp.op = "add_issue" /\ lastOp.existed) => count = lastOp.count_before

\* A search that returned one key re-added with another embedding after the
\* matrix held its row, and one re-added before any matrix held its row
C3_Witness ==
    /\ AfterFindSimilar
    /\ ret.kind = "list"
    /\ \E a, b \in ReturnedKeys : replaced[a] = "built" /\ replaced[b] = "unbuilt"

\* C4: once delete_issue(key) has returned true, and until the key is
\* added again, find_similar returns no record with that key.
C4_DeletedNeverReturned ==
    (AfterFindSimilar /\ ret.kind = "list") =>
        \A i \in 1..Len(ret.val) : deleted[ret.val[i].record.issue_key] = "no"

\* A search that returned a record while a key deleted out of a built
\* matrix is still absent
C4_Witness ==
    /\ AfterFindSimilar
    /\ ret.kind = "list"
    /\ Len(ret.val) >= 1
    /\ \E k \in Keys : deleted[k] = "built"

\* Fewer than top_k stored, non-excluded other records are at least as similar
RanksWithinTopK(key) ==
    Cardinality({y \in Range(DictKeys(issues)) \ (lastOp.exclude \cup {key}) :
                    SimLeq(StoredSimilarity(key), StoredSimilarity(y))})
        < lastOp.top_k

\* C5: a record added after the last rebuild is a candidate of the very
\* next find_similar: when it is not excluded and ranks within the first
\* top_k non-excluded records, that call returns it.
C5_FreshRecordVisible ==
    AfterFindSimilar =>
        \A key \in lastOp.fresh :
            (key \notin lastOp.exclude /\ DictHas(issues, key) /\ RanksWithinTopK(key))
                => (ret.kind = "list" /\ key \in ReturnedKeys)

\* A search that returned a record added after a rebuild that had built
\* the row of another record
C5_Witness ==
    /\ AfterFindSimilar
    /\ ret.kind = "list"
    /\ \E key \in lastOp.fresh :
          /\ key \in ReturnedKeys
          /\ \E other \in Range(DictKeys(issues)) : other \notin lastOp.fresh

----------------------------------------------------------------------------
(* VectorDatabase: the processed_events ledger *)

\* INSERT on a table without the UNIQUE constraint on event_id
InsertAlways(table, row) ==
    Append(table, [id |-> Len(table) + 1, event_id |-> row.event_id,
                   issue_key |-> row.issue_key, event_type |-> row.event_type])

\* INSERT OR REPLACE: the row in conflict is deleted, the new one inserted
InsertOrReplace(table, row) ==
    InsertAlways(SelectSeq(table, LAMBDA r : r.event_id # row.event_id), row)

\* INSERT OR IGNORE INTO processed_events, event_id being UNIQUE:
\* a row whose event_id is in the table is dropped, any other is appended
\* under the next id
InsertOrIgnore(table, row) ==
    IF \E i \in 1..Len(table) : table[i].event_id = row.event_id
    THEN table
    ELSE Append(table, [id |-> Len(table) + 1, event_id |-> row.event_id,
                        issue_key |-> row.issue_key, event_type |-> row.event_type])

\* mark_event_processed: execute, then commit
mark_event_processed(event_id, issue_key, event_type) ==
    /\ processed_events' =
          InsertOrIgnore(processed_events,
                         [event_id |-> event_id, issue_key |-> issue_key,
                          event_type |-> event_type])
    /\ ret' = NoRet

\* is_event_processed: SELECT 1 ... WHERE event_id = ?, fetchone() is not None
is_event_processed(event_id) ==
    /\ ret' = [kind |-> "bool",
               val |-> \E i \in 1..Len(processed_events) :
                          processed_events[i].event_id = event_id]
    /\ UNCHANGED processed_events

MarkEventProcessed ==
    \E event_id \in EventIds, issue_key \in Keys, event_type \in EventTypes :
        /\ mark_event_processed(event_id, issue_key, event_type)
        /\ marked' = [marked EXCEPT ![event_id] =
                         IF marked[event_id].calls = 0
                         THEN [calls |-> 1, issue_key |-> issue_key,
                               event_type |-> event_type]
                         ELSE [@ EXCEPT !.calls = 2]]
        /\ lastOp' = [op |-> "mark_event_processed", event_id |-> event_id,
                      issue_key |-> issue_key, event_type |-> event_type,
                      before |-> processed_events]

IsEventProcessed ==
    \E event_id \in EventIds :
        /\ is_event_processed(event_id)
        /\ UNCHANGED marked
        /\ lastOp' = [op |-> "is_event_processed", event_id |-> event_id]

NextLedger ==
    \/ MarkEventProcessed /\ UNCHANGED <<storeVars, webhookVars, suggestVars, durableVars, threadVars>>
    \/ IsEventProcessed /\ UNCHANGED <<storeVars, webhookVars, suggestVars, durableVars, threadVars>>

SpecLedger == Init /\ [][NextLedger]_vars

----------------------------------------------------------------------------
(* Properties of the ledger *)

RowsOf(event_id) ==
    {i \in 1..Len(processed_events) : processed_events[i].event_id = event_id}

\* C6: the ledger holds at most one entry per event_id, and
\* is_event_processed(e) returns true exactly when mark_event_processed
\* has been called with e before.
C6_OneEntryPerEvent ==
    /\ \A e \in EventIds : Cardinality(RowsOf(e)) <= 1
    /\ \A e \in EventIds : marked[e].calls > 0 => Cardinality(RowsOf(e)) = 1
    /\ lastOp.op = "is_event_processed" =>
          (ret.val <=> marked[lastOp.event_id].calls > 0)

\* is_event_processed answered true for an event marked twice, and false
\* was the answer it would give for another one
C6_Witness ==
    /\ lastOp.op = "is_event_processed"
    /\ ret.val
    /\ marked[lastOp.event_id].calls = 2
    /\ \E e \in EventIds : marked[e].calls = 0

\* C7: mark_event_processed on an event_id already in the ledger raises
\* nothing and leaves the ledger as it was: the entry keeps the issue_key
\* and event_type of the first call.
C7_MarkIdempotent ==
    /\ lastOp.op = "mark_event_processed" => ret.kind = "None"
    /\ (lastOp.op = "mark_event_processed" /\ RowsOf(lastOp.event_id) # {}
            /\ marked[lastOp.event_id].calls = 2) =>
          processed_events = lastOp.before
    /\ \A e \in EventIds : \A i \in RowsOf(e) :
          /\ processed_events[i].issue_key = marked[e].issue_key
          /\ processed_events[i].event_type = marked[e].event_type

\* A second mark_event_processed for an event, with another issue_key and
\* another event_type than the first
C7_Witness ==
    /\ lastOp.op = "mark_event_processed"
    /\ marked[lastOp.event_id].calls = 2
    /\ lastOp.issue_key # marked[lastOp.event_id].issue_key
    /\ lastOp.event_type # marked[lastOp.event_id].event_type

----------------------------------------------------------------------------
(* The Jira webhook *)

\* jira_webhook: what it adds to the background tasks and what it answers.
\* No line of it reads or writes the processed_events ledger.
jira_webhook(payload) ==
    LET event_type == payload.webhookEvent IN
    IF event_type \in {"jira:issue_created", "jira:issue_updated"}
    THEN IF "null" \in DOMAIN payload.issue
         THEN \* None.get raises, the handler answers 500
              /\ ret' = [kind |-> "HTTPException", status_code |-> 500]
              /\ UNCHANGED background_tasks
         ELSE IF payload.issue.key # None
         THEN /\ background_tasks' =
                    [background_tasks EXCEPT ![payload.issue.key] = @ + 1]
              /\ ret' = [kind |-> "response", status |-> "accepted",
                         issue |-> payload.issue.key]
         ELSE /\ ret' = [kind |-> "response", status |-> "ignored",
                         event |-> event_type]
              /\ UNCHANGED background_tasks
    ELSE /\ ret' = [kind |-> "response", status |-> "ignored", event |-> event_type]
         /\ UNCHANGED background_tasks

\* process_issue_async: one scheduled task runs; whatever process_issue
\* does, its result or its exception is logged and nothing is raised
process_issue_async(issue_key, outcome) ==
    /\ background_tasks[issue_key] > 0
    /\ background_tasks' = [background_tasks EXCEPT ![issue_key] = @ - 1]
    /\ task_log' = [task_log EXCEPT ![issue_key][outcome] = @ + 1]
    /\ ret' = NoRet

\* The number of tasks in a BackgroundTasks bag
RECURSIVE TaskCountOver(_, _)
TaskCountOver(tasks, keys) ==
    IF keys = {} THEN 0
    ELSE LET k == CHOOSE x \in keys : TRUE
         IN tasks[k] + TaskCountOver(tasks, keys \ {k})

TaskCount(tasks) == TaskCountOver(tasks, DOMAIN tasks)

\* Jira delivers an event, for the first time or again
Deliver ==
    \E e \in ExternalEvents :
        /\ delivered[e.id] < MaxDeliveries
        /\ jira_webhook([webhookEvent |-> e.webhookEvent, issue |-> e.issue])
        /\ delivered' = [delivered EXCEPT ![e.id] = @ + 1]
        /\ scheduled' = [scheduled EXCEPT ![e.id] =
                            @ + TaskCount(background_tasks') - TaskCount(background_tasks)]
        /\ UNCHANGED task_log
        /\ lastOp' = [op |-> "jira_webhook", event |-> e.id]

RunTask ==
    \E issue_key \in Keys, outcome \in {"info", "error"} :
        /\ process_issue_async(issue_key, outcome)
        /\ UNCHANGED <<delivered, scheduled>>
        /\ lastOp' = [op |-> "process_issue_async", issue_key |-> issue_key]

NextWebhook ==
    \/ Deliver /\ UNCHANGED <<storeVars, ledgerVars, suggestVars, durableVars, threadVars>>
    \/ RunTask /\ UNCHANGED <<storeVars, ledgerVars, suggestVars, durableVars, threadVars>>

SpecWebhook == Init /\ [][NextWebhook]_vars

\* C8: an external event delivered to the webhook more than once is
\* processed at most once: a redelivery schedules no second processing task.
C8_RedeliverySchedulesNothing ==
    \A id \in ExternalEventIds : scheduled[id] <= 1

----------------------------------------------------------------------------
(* IssueOrganizer.suggest_epic *)

\* The model EpicSuggestion: confidence is validated, ge=0.0 and le=1.0
EpicSuggestion(epic_key, confidence, reasoning) ==
    IF 0 <= confidence.num /\ confidence.num <= confidence.den
    THEN [kind |-> "EpicSuggestion", epic_key |-> epic_key,
          confidence |-> confidence, reasoning |-> reasoning]
    ELSE [kind |-> "ValidationError"]

ZeroConfidence == [num |-> 0, den |-> 1]

NoEpicReasoning == [text |-> "No similar issues with assigned epics found."]

\* a loop that lets every neighbor vote, with or without an epic
HasEpic_Always(record) == TRUE

\* if record.epic_key: neither None nor the empty string
HasEpic(record) == record.epic_key # None /\ record.epic_key # ""

\* epic_votes[epic_key] += similarity on a dict kept in first-seen order
AddVote(epic_votes, epic_key, similarity) ==
    IF \E i \in 1..Len(epic_votes) : epic_votes[i].epic_key = epic_key
    THEN [i \in 1..Len(epic_votes) |->
             IF epic_votes[i].epic_key = epic_key
             THEN [epic_key |-> epic_key, votes |-> epic_votes[i].votes + similarity]
             ELSE epic_votes[i]]
    ELSE Append(epic_votes, [epic_key |-> epic_key, votes |-> 0 + similarity])

\* The loop of lines 116-121: epic_votes
RECURSIVE EpicVotes(_, _)
EpicVotes(neighbors, epic_votes) ==
    IF neighbors = <<>> THEN epic_votes
    ELSE LET n == Head(neighbors)
         IN EpicVotes(Tail(neighbors),
                      IF HasEpic(n.record)
                      THEN AddVote(epic_votes, n.record.epic_key, n.similarity)
                      ELSE epic_votes)

\* The loop of lines 116-121: total_similarity
RECURSIVE TotalSimilarity(_)
TotalSimilarity(neighbors) ==
    IF neighbors = <<>> THEN 0
    ELSE (IF HasEpic(Head(neighbors).record) THEN Head(neighbors).similarity ELSE 0)
         + TotalSimilarity(Tail(neighbors))

\* max(epic_votes.items(), key=lambda x: x[1]): the first of the largest
BestEpic(epic_votes) ==
    epic_votes[CHOOSE i \in 1..Len(epic_votes) :
                  /\ \A j \in 1..Len(epic_votes) : epic_votes[j].votes <= epic_votes[i].votes
                  /\ \A j \in 1..(i - 1) : epic_votes[j].votes < epic_votes[i].votes]

\* sum(1 for r, _ in similar_issues if r.epic_key == epic_key)
EpicCount(neighbors, epic_key) ==
    Cardinality({i \in 1..Len(neighbors) : neighbors[i].record.epic_key = epic_key})

\* f"{confidence:.2f}": the confidence in hundredths, rounded to nearest
TwoDecimals(confidence) ==
    (200 * confidence.num + confidence.den) \div (2 * confidence.den)

\* suggest_epic from line 112 on: the neighbors vote
VoteForEpic(neighbors) ==
    LET epic_votes == EpicVotes(neighbors, <<>>)
        total_similarity == TotalSimilarity(neighbors)
    IN IF Len(epic_votes) = 0
       THEN EpicSuggestion(None, ZeroConfidence, NoEpicReasoning)
       ELSE LET best_epic == BestEpic(epic_votes)
                confidence == IF total_similarity > 0
                              THEN [num |-> best_epic.votes, den |-> total_similarity]
                              ELSE ZeroConfidence
                reasoning == [text |-> "{epic_count}/{len(similar_issues)} similar issues belong to this epic. Confidence: {confidence:.2f}",
                              epic_count |-> EpicCount(neighbors, best_epic.epic_key),
                              similar_issues |-> Len(neighbors),
                              confidence |-> TwoDecimals(confidence)]
            IN EpicSuggestion(best_epic.epic_key, confidence, reasoning)

\* suggest_epic without its return on empty input
suggest_epic_NoEmptyCheck(neighbors) == VoteForEpic(neighbors)

\* suggest_epic: None on empty input, the vote otherwise
suggest_epic(neighbors) ==
    IF Len(neighbors) = 0 THEN [kind |-> "None"]
    ELSE VoteForEpic(neighbors)

SuggestEpic ==
    /\ lastOp.op = "init"
    /\ ret' = suggest_epic(similar_issues)
    /\ lastOp' = [op |-> "suggest_epic"]
    /\ UNCHANGED similar_issues

InitSuggest ==
    /\ StoreInit
    /\ LedgerInit
    /\ WebhookInit
    /\ DurableInit
    /\ ThreadInit
    /\ similar_issues \in NeighborSeqs
    /\ lastOp = NoCall
    /\ ret = NoRet

NextSuggest ==
    SuggestEpic /\ UNCHANGED <<storeVars, ledgerVars, webhookVars, durableVars, threadVars>>

SpecSuggest == InitSuggest /\ [][NextSuggest]_vars

----------------------------------------------------------------------------
(* Properties of suggest_epic *)

AfterSuggestEpic == lastOp.op = "suggest_epic"

\* No neighbor carries an epic_key: each has None, or the empty string
NoNeighborHasEpic ==
    \A i \in 1..Len(similar_issues) : similar_issues[i].record.epic_key \in {None, ""}

C10_NoEpicGivesNullSuggestion ==
    (AfterSuggestEpic /\ similar_issues # <<>> /\ NoNeighborHasEpic) =>
        /\ ret.kind = "EpicSuggestion"
        /\ ret.epic_key = None
        /\ ret.confidence = ZeroConfidence
        /\ ret.reasoning = NoEpicReasoning

\* suggest_epic has been called on several neighbors without an epic, one
\* of them with a positive score
C10_Witness ==
    /\ AfterSuggestEpic
    /\ Len(similar_issues) >= 2
    /\ NoNeighborHasEpic
    /\ \E i \in 1..Len(similar_issues) : similar_issues[i].similarity > 0

\* Some neighbor carries an epic_key
SomeNeighborHasEpic ==
    \E i \in 1..Len(similar_issues) : similar_issues[i].record.epic_key \notin {None, ""}

CarriedEpics ==
    {similar_issues[i].record.epic_key : i \in 1..Len(similar_issues)} \ {None, ""}

\* The sum of the scores of the neighbors at the positions in idx
RECURSIVE ScoreSum(_)
ScoreSum(idx) ==
    IF idx = {} THEN 0
    ELSE LET i == CHOOSE x \in idx : TRUE
         IN similar_issues[i].similarity + ScoreSum(idx \ {i})

PositionsOf(epic_key) ==
    {i \in 1..Len(similar_issues) : similar_issues[i].record.epic_key = epic_key}

EpicSum(epic_key) == ScoreSum(PositionsOf(epic_key))

EpicVoteTotal == ScoreSum({i \in 1..Len(similar_issues) :
                              similar_issues[i].record.epic_key \notin {None, ""}})

FirstPosition(epic_key) ==
    CHOOSE i \in PositionsOf(epic_key) : \A j \in PositionsOf(epic_key) : i <= j

\* The epic of the largest sum, the first in the sequence among equal ones
LargestSumEpic ==
    CHOOSE e \in CarriedEpics :
        \A f \in CarriedEpics :
            \/ EpicSum(f) < EpicSum(e)
            \/ EpicSum(f) = EpicSum(e) /\ FirstPosition(e) <= FirstPosition(f)

\* C11: when a neighbor carries an epic_key, suggest_epic returns the epic
\* whose score sum over the neighbors carrying it is largest, and among
\* epics of equal largest sum the one first in the neighbor sequence.
C11_LargestSumWins ==
    (AfterSuggestEpic /\ SomeNeighborHasEpic) =>
        /\ ret.kind = "EpicSuggestion"
        /\ ret.epic_key = LargestSumEpic

\* C12: when a neighbor carries an epic_key, the confidence suggest_epic
\* returns is the winning epic's score sum divided by the sum of the scores
\* of all epic-carrying neighbors, and lies in [0,1], whatever the scores
\* (zero and negative ones included).
C12_ConfidenceIsShare ==
    (AfterSuggestEpic /\ SomeNeighborHasEpic) =>
        /\ ret.kind = "EpicSuggestion"
        /\ EpicVoteTotal # 0
        /\ ret.confidence.num * EpicVoteTotal
              = EpicSum(LargestSumEpic) * ret.confidence.den
        /\ 0 <= ret.confidence.num
        /\ ret.confidence.num <= ret.confidence.den

\* C13: the suggestion functions never fail: whatever the neighbor
\* sequence and its scores, each returns a result and raises nothing.
C13_NeverFails ==
    lastOp.op \in {"suggest_epic", "suggest_labels", "suggest_components"} =>
        ret.kind \in {"None", "EpicSuggestion", "list"}

-----------------------------------------------------------------------------
(* IssueOrganizer.suggest_labels and suggest_components (organizer.py) *)

MaxTagNeighbors == 2
MaxTopK == 2

\* record.labels and record.components: lists of distinct identifiers
LabelLists == {<<>>, <<"bug">>, <<"ui">>, <<"bug", "ui">>, <<"ui", "bug">>}
ComponentLists == {<<>>, <<"api">>, <<"db">>, <<"api", "db">>, <<"db", "api">>}

TagNeighbors ==
    [record : [labels : LabelLists, components : {<<>>}], similarity : Scores]
    \cup [record : [labels : {<<>>}, components : ComponentLists], similarity : Scores]

TagNeighborSeqs == SeqsUpTo(TagNeighbors, MaxTagNeighbors)

\* label_weights[label] += similarity on a dict kept in first-seen order
AddWeight(label_weights, label, similarity) ==
    IF \E i \in 1..Len(label_weights) : label_weights[i].id = label
    THEN [i \in 1..Len(label_weights) |->
             IF label_weights[i].id = label
             THEN [id |-> label, weight |-> label_weights[i].weight + similarity]
             ELSE label_weights[i]]
    ELSE Append(label_weights, [id |-> label, weight |-> 0 + similarity])

\* The inner loop of lines 168-171 (194-197): every identifier of one record
RECURSIVE AddWeights(_, _, _)
AddWeights(label_weights, labels, similarity) ==
    IF labels = <<>> THEN label_weights
    ELSE AddWeights(AddWeight(label_weights, Head(labels), similarity),
                    Tail(labels), similarity)

\* The outer loop of lines 167-171 (193-197) over the field labels or components
RECURSIVE Weights(_, _, _)
Weights(neighbors, field, label_weights) ==
    IF neighbors = <<>> THEN label_weights
    ELSE LET n == Head(neighbors)
         IN Weights(Tail(neighbors), field,
                    AddWeights(label_weights, n.record[field], n.similarity))

\* An insertion that puts the item before the items of equal weight
InsertByWeight_BeforeEqual(sorted_labels, item) ==
    LET p == Cardinality({i \in 1..Len(sorted_labels) :
                             sorted_labels[i].weight > item.weight})
    IN SubSeq(sorted_labels, 1, p) \o <<item>>
          \o SubSeq(sorted_labels, p + 1, Len(sorted_labels))

\* One insertion of the stable sort: after every item of greater or equal weight
InsertByWeight(sorted_labels, item) ==
    LET p == Cardinality({i \in 1..Len(sorted_labels) :
                             sorted_labels[i].weight >= item.weight})
    IN SubSeq(sorted_labels, 1, p) \o <<item>>
          \o SubSeq(sorted_labels, p + 1, Len(sorted_labels))

\* sorted(label_weights.items(), key=lambda x: x[1], reverse=True): stable
RECURSIVE SortedByWeight(_, _)
SortedByWeight(items, sorted_labels) ==
    IF items = <<>> THEN sorted_labels
    ELSE SortedByWeight(Tail(items), InsertByWeight(sorted_labels, Head(items)))

\* [label for label, _ in sorted_labels[:top_k]], for top_k >= 0
FirstIds(sorted_labels, top_k) ==
    [i \in 1..(IF top_k < Len(sorted_labels) THEN top_k ELSE Len(sorted_labels)) |->
        sorted_labels[i].id]

suggest_labels(neighbors, top_k) ==
    IF neighbors = <<>> THEN <<>>
    ELSE FirstIds(SortedByWeight(Weights(neighbors, "labels", <<>>), <<>>), top_k)

suggest_components(neighbors, top_k) ==
    IF neighbors = <<>> THEN <<>>
    ELSE FirstIds(SortedByWeight(Weights(neighbors, "components", <<>>), <<>>), top_k)

SuggestLabels ==
    /\ lastOp.op = "init"
    /\ \E top_k \in 0..MaxTopK :
          /\ ret' = [kind |-> "list", val |-> suggest_labels(similar_issues, top_k)]
          /\ lastOp' = [op |-> "suggest_labels", field |-> "labels", top_k |-> top_k]
    /\ UNCHANGED similar_issues

SuggestComponents ==
    /\ lastOp.op = "init"
    /\ \E top_k \in 0..MaxTopK :
          /\ ret' = [kind |-> "list", val |-> suggest_components(similar_issues, top_k)]
          /\ lastOp' = [op |-> "suggest_components", field |-> "components",
                        top_k |-> top_k]
    /\ UNCHANGED similar_issues

InitTags ==
    /\ StoreInit
    /\ LedgerInit
    /\ WebhookInit
    /\ DurableInit
    /\ ThreadInit
    /\ similar_issues \in TagNeighborSeqs
    /\ lastOp = NoCall
    /\ ret = NoRet

NextTags ==
    \/ SuggestLabels /\ UNCHANGED <<storeVars, ledgerVars, webhookVars, durableVars, threadVars>>
    \/ SuggestComponents /\ UNCHANGED <<storeVars, ledgerVars, webhookVars, durableVars, threadVars>>

SpecTags == InitTags /\ [][NextTags]_vars

-----------------------------------------------------------------------------
(* Properties of suggest_labels and suggest_components *)

AfterSuggestTags == lastOp.op \in {"suggest_labels", "suggest_components"}

\* The positions of the neighbors that carry the identifier in the field
CarriersOf(id, field) ==
    {i \in 1..Len(similar_issues) :
        \E j \in 1..Len(similar_issues[i].record[field]) :
            similar_issues[i].record[field][j] = id}

\* An identifier's weight: the sum of the scores of the neighbors carrying it
TagWeight(id, field) == ScoreSum(CarriersOf(id, field))

\* Where the walk over the neighbor sequence first meets the identifier
FirstSeen(id, field) ==
    LET i == CHOOSE x \in CarriersOf(id, field) :
                 \A y \in CarriersOf(id, field) : x <= y
        j == CHOOSE x \in 1..Len(similar_issues[i].record[field]) :
                 similar_issues[i].record[field][x] = id
    IN [neighbor |-> i, place |-> j]

SeenBefore(a, b) ==
    \/ a.neighbor < b.neighbor
    \/ a.neighbor = b.neighbor /\ a.place < b.place

\* C14: suggest_labels and suggest_components return at most top_k
\* identifiers, each carried by a neighbor, in non-increasing order of
\* accumulated weight (the sum of the scores of every neighbor carrying the
\* identifier); identifiers of equal weight come in first-seen order.
C14_TopWeightsInOrder ==
    AfterSuggestTags =>
        /\ ret.kind = "list"
        /\ Len(ret.val) <= lastOp.top_k
        /\ \A i \in 1..Len(ret.val) : CarriersOf(ret.val[i], lastOp.field) # {}
        /\ \A i, j \in 1..Len(ret.val) :
              i < j =>
                 LET wi == TagWeight(ret.val[i], lastOp.field)
                     wj == TagWeight(ret.val[j], lastOp.field)
                 IN /\ wi >= wj
                    /\ wi = wj => SeenBefore(FirstSeen(ret.val[i], lastOp.field),
                                             FirstSeen(ret.val[j], lastOp.field))

\* Two identifiers of equal weight, one of them summed over two neighbors,
\* are returned, the one seen first in front
C14_Witness ==
    /\ lastOp.op = "suggest_labels"
    /\ Len(ret.val) = 2
    /\ TagWeight(ret.val[1], "labels") = TagWeight(ret.val[2], "labels")
    /\ Cardinality(CarriersOf(ret.val[1], "labels")) = 2
    /\ FirstSeen(ret.val[1], "labels").neighbor = 1
    /\ FirstSeen(ret.val[2], "labels").neighbor = 2

-----------------------------------------------------------------------------
(* Properties of find_similar: equal scores, and top_k below one *)

\* The row of the key in the key order list
RowOf(issue_key) ==
    CHOOSE i \in 1..Len(issue_keys_order) : issue_keys_order[i] = issue_key

\* C15: records of exactly equal similarity to the query are returned in
\* the order of their keys in the key order list, the earlier key first.
C15_TiesInKeyOrder ==
    (AfterFindSimilar /\ ret.kind = "list") =>
        \A i, j \in 1..Len(ret.val) :
            (/\ i < j
             /\ SimLeq(ret.val[i].similarity, ret.val[j].similarity)
             /\ SimLeq(ret.val[j].similarity, ret.val[i].similarity))
            => RowOf(ret.val[i].record.issue_key) < RowOf(ret.val[j].record.issue_key)

\* C17: find_similar called with top_k below one is rejected as an invalid
\* argument and returns no record.
C17_NonPositiveKRejected ==
    (AfterFindSimilar /\ lastOp.top_k < 1) => ret.kind = "InvalidArgument"

-----------------------------------------------------------------------------
(* The transient store fed vectors of more than one length *)

\* Embeddings and queries of the store's length, and of another length
MixedVectors == {<<1, 0>>, <<1>>}
MixedQueries == {<<3, 4>>, <<1>>}

MixedRecords == [issue_key : Keys, embedding : MixedVectors]

NextMixed ==
    \/ AddIssueOf(MixedRecords) /\ UNCHANGED <<ledgerVars, webhookVars, suggestVars, durableVars, threadVars>>
    \/ DeleteIssue /\ UNCHANGED <<ledgerVars, webhookVars, suggestVars, durableVars, threadVars>>
    \/ FindSimilarOf(MixedQueries, {MaxK}, {{}})
          /\ UNCHANGED <<ledgerVars, webhookVars, suggestVars, durableVars, threadVars>>

SpecMixed == Init /\ [][NextMixed]_vars

\* Every stored embedding has the same length
OneDimensionStored ==
    \A i, j \in 1..Len(issues) : Len(issues[i].embedding) = Len(issues[j].embedding)

\* C16: a vector whose length differs from the index's dimension is
\* rejected with an error at the call that supplies it, add_issue or
\* find_similar, and the store is left unchanged: no mismatched record is
\* ever stored, and a search with a query of the stored length succeeds.
C16_MismatchRejected ==
    /\ OneDimensionStored
    /\ (/\ AfterFindSimilar
        /\ Len(issues) > 0
        /\ \A i \in 1..Len(issues) : Len(issues[i].embedding) = Len(lastOp.query))
       => ret.kind = "list"
    /\ (/\ AfterFindSimilar
        /\ Len(issues) > 0
        /\ \A i \in 1..Len(issues) : Len(issues[i].embedding) # Len(lastOp.query))
       => ret.kind = "ValueError"

-----------------------------------------------------------------------------
(* VectorDatabase: the issues table and the FAISS index (database.py) *)

MaxAdds == 3    \* add_issue calls begun on the durable backend

\* INSERT OR REPLACE INTO issues: the row in conflict on issue_key is
\* deleted and the new row, with a new rowid, comes last in rowid order
ReplaceInto(rows, row) ==
    Append(SelectSeq(rows, LAMBDA r : r.issue_key # row.issue_key), row)

\* AUTOINCREMENT: one more than the largest rowid ever used; every call
\* that began has inserted one row
NextRowId == durable_hist.adds + 1

\* No add_issue call is running
AllIdle == \A c \in Callers : add_pc[c].at = "idle"

\* add_issue, lines 94-114: the insert and its commit, by the caller c
AddIssueCommit(c) ==
    /\ add_pc[c].at = "idle"
    /\ durable_hist.adds < MaxAdds
    /\ \E issue_key \in Keys, embedding \in Vectors :
          /\ db_issues' = ReplaceInto(db_issues,
                                      [id |-> NextRowId, issue_key |-> issue_key,
                                       embedding_vector |-> embedding])
          /\ add_pc' = [add_pc EXCEPT ![c] = [at |-> "committed",
                                               issue_key |-> issue_key,
                                               embedding |-> embedding]]
          /\ cursor' = [lastrowid |-> NextRowId]
          /\ durable_hist' =
                [durable_hist EXCEPT
                    !.adds = @ + 1,
                    !.reused = @ \/ \E i \in 1..Len(db_issues) :
                                       db_issues[i].issue_key = issue_key]
    /\ lastOp' = [op |-> "add_issue_durable"]
    /\ ret' = [kind |-> "running"]
    /\ UNCHANGED <<index, index_file>>

\* add_issue, line 117: self.index.add; owner is history, the key of the call
AddIssueAppend(c) ==
    /\ add_pc[c].at = "committed"
    /\ index' = Append(index, [vector |-> add_pc[c].embedding,
                               owner |-> add_pc[c].issue_key])
    /\ add_pc' = [add_pc EXCEPT ![c].at = "appended"]
    /\ UNCHANGED <<db_issues, index_file, cursor, durable_hist, lastOp, ret>>

\* add_issue, lines 118-120: save_index and the return of lastrowid
AddIssueSave(c) ==
    /\ add_pc[c].at = "appended"
    /\ index_file' = index
    /\ add_pc' = [add_pc EXCEPT ![c] = [at |-> "idle"]]
    /\ ret' = [kind |-> "int", val |-> cursor.lastrowid]
    /\ UNCHANGED <<db_issues, index, cursor, durable_hist, lastOp>>

\* The process dies inside add_issue after the commit and is started again:
\* __init__ reads the index back from faiss.index (lines 24-32, 66-74)
Crash ==
    /\ ~AllIdle
    /\ index' = index_file
    /\ cursor' = [lastrowid |-> 0]
    /\ add_pc' = [c \in Callers |-> [at |-> "idle"]]
    /\ durable_hist' = [durable_hist EXCEPT !.interrupted = @ + 1]
    /\ lastOp' = [op |-> "restart"]
    /\ ret' = NoRet
    /\ UNCHANGED <<db_issues, index_file>>

\* Queries of search_similar: one as far from every stored vector, one not
DurableQueries == {<<0, 0>>, <<3, 4>>}

\* get_stats (the processed_events count is left out)
get_stats == [total_issues |-> Len(db_issues), index_size |-> Len(index)]

\* IndexFlatL2: the squared Euclidean distance
RECURSIVE SquaredL2(_, _)
SquaredL2(u, v) ==
    IF u = <<>> \/ v = <<>> THEN 0
    ELSE (Head(u) - Head(v)) * (Head(u) - Head(v)) + SquaredL2(Tail(u), Tail(v))

Distances(query_vec) == [i \in 1..Len(index) |-> SquaredL2(index[i].vector, query_vec)]

\* index.search: the vectors by ascending distance; equal distances in any order
NearestOrders(distances) ==
    {p \in IndexOrders(Len(distances)) :
        \A i, j \in 1..Len(distances) : i < j => distances[p[i]] <= distances[p[j]]}

\* a lookup that reads the row after the one at the offset
RowAtOffset_Next(rows, idx) ==
    IF idx + 2 <= Len(rows) THEN <<rows[idx + 2]>> ELSE <<>>

\* SELECT ... FROM issues LIMIT 1 OFFSET idx, then fetchone(): a row or none
RowAtOffset(rows, idx) ==
    IF idx + 1 <= Len(rows) THEN <<rows[idx + 1]>> ELSE <<>>

\* The loop of search_similar, lines 141-160
RECURSIVE SearchResults(_, _, _)
SearchResults(indices, distances, results) ==
    IF indices = <<>> THEN results
    ELSE LET row == RowAtOffset(db_issues, Head(indices))
         IN SearchResults(Tail(indices), Tail(distances),
                IF row # <<>>
                THEN Append(results,
                            [issue_key |-> row[1].issue_key,
                             similarity_score |-> [num |-> 1,
                                                   den |-> 1 + Head(distances)]])
                ELSE results)

\* The indices FAISS returns, counted from 0: the first min(top_k, ntotal) of order
FaissIndices(top_k, order) ==
    [i \in 1..(IF top_k < Len(index) THEN top_k ELSE Len(index)) |-> order[i] - 1]

\* What index.search may return for the query: one list of indices for
\* each way of ranking the vectors
FaissSearch(query_vec, top_k) ==
    {FaissIndices(top_k, order) : order \in NearestOrders(Distances(query_vec))}

\* search_similar; indices is what index.search returned
search_similar(query_embedding, top_k, indices) ==
    IF Len(index) = 0 THEN <<>>
    ELSE LET distances == [i \in 1..Len(indices) |->
                              Distances(query_embedding)[indices[i] + 1]]
         IN SearchResults(indices, distances, <<>>)

\* One caller: a search runs between add_issue calls
SearchSimilar ==
    /\ AllIdle
    /\ \E query_embedding \in DurableQueries, top_k \in 1..MaxK :
          \E indices \in FaissSearch(query_embedding, top_k) :
              /\ ret' = [kind |-> "list",
                         val |-> search_similar(query_embedding, top_k, indices)]
              /\ lastOp' = [op |-> "search_similar", query |-> query_embedding,
                            top_k |-> top_k, indices |-> indices]
    /\ UNCHANGED durableVars

NextDurable ==
    \/ AddIssueCommit("w1") /\ UNCHANGED <<storeVars, ledgerVars, webhookVars, suggestVars, threadVars>>
    \/ AddIssueAppend("w1") /\ UNCHANGED <<storeVars, ledgerVars, webhookVars, suggestVars, threadVars>>
    \/ AddIssueSave("w1") /\ UNCHANGED <<storeVars, ledgerVars, webhookVars, suggestVars, threadVars>>
    \/ Crash /\ UNCHANGED <<storeVars, ledgerVars, webhookVars, suggestVars, threadVars>>
    \/ SearchSimilar /\ UNCHANGED <<storeVars, ledgerVars, webhookVars, suggestVars, threadVars>>

SpecDurable == Init /\ [][NextDurable]_vars

-----------------------------------------------------------------------------
(* Properties of the durable backend *)

\* C18: the vector index is never ahead of the metadata store: in every
\* reachable state, crashes inside add_issue and re-used keys included, the
\* index (in memory and on disk) holds at most as many vectors as the issues
\* table has rows, and after a single crash between the commit and the
\* append it is at most one behind.
C18_IndexNeverAhead ==
    /\ get_stats.index_size <= get_stats.total_issues
    /\ Len(index_file) <= Len(db_issues)
    /\ (durable_hist.interrupted = 1 /\ AllIdle)
          => Len(db_issues) - Len(index_file) <= 1

AfterSearchSimilar == lastOp.op = "search_similar"

\* The Nth vector of the index was added under the key of the Nth row
VectorsMatchRows ==
    \A n \in 1..Len(index) :
        /\ n <= Len(db_issues)
        /\ db_issues[n].issue_key = index[n].owner

\* The last search reported, for every vector it matched, the key the
\* vector was added under, and dropped none
SearchPairsOwners ==
    /\ Len(ret.val) = Len(lastOp.indices)
    /\ \A i \in 1..Len(ret.val) :
          ret.val[i].issue_key = index[lastOp.indices[i] + 1].owner

Misaligned ==
    \/ ~VectorsMatchRows
    \/ AfterSearchSimilar /\ ~SearchPairsOwners

-----------------------------------------------------------------------------
(* The transient store called from several threads.  The store takes no     *)
(* lock; a step is one statement of vector_store.py, named by its line.     *)

\* What the writing thread adds, and what every searching thread asks for
ThreadRecords == {[issue_key |-> "A", embedding |-> <<1, 0>>],
                  [issue_key |-> "B", embedding |-> <<0, 1>>]}
ThreadQuery == <<3, 4>>

\* The thread t moves to the statement pc
Goto(t, pc) == search' = [search EXCEPT ![t].pc = pc]

\* The call of t ends: it returns, or raises
Finish(t, outcome) ==
    search' = [search EXCEPT ![t].pc = "done", ![t].outcome = outcome]

StoreUntouched ==
    UNCHANGED <<issues, embeddings_matrix, issue_keys_order, needs_rebuild>>

\* t calls find_similar(ThreadQuery, top_k=MaxK)
Call(t) ==
    /\ search[t].pc = "idle"
    /\ Goto(t, "l111")
    /\ StoreUntouched

\* line 111: if self._needs_rebuild
CheckStale(t) ==
    /\ search[t].pc = "l111"
    /\ Goto(t, IF needs_rebuild THEN "l87" ELSE "l114")
    /\ StoreUntouched

\* line 87: if not self._issues
RebuildCheckEmpty(t) ==
    /\ search[t].pc = "l87"
    /\ Goto(t, IF Len(issues) = 0 THEN "l88" ELSE "l92")
    /\ StoreUntouched

\* line 88: self._embeddings_matrix = None
RebuildDropMatrix(t) ==
    /\ search[t].pc = "l88"
    /\ embeddings_matrix' = NoMatrix
    /\ Goto(t, "l89")
    /\ UNCHANGED <<issues, issue_keys_order, needs_rebuild>>

\* lines 89-90: self._issue_keys_order = [], return
RebuildDropKeys(t) ==
    /\ search[t].pc = "l89"
    /\ issue_keys_order' = <<>>
    /\ Goto(t, "l114")
    /\ UNCHANGED <<issues, embeddings_matrix, needs_rebuild>>

\* line 92: self._issue_keys_order = list(self._issues.keys())
RebuildKeys(t) ==
    /\ search[t].pc = "l92"
    /\ issue_keys_order' = DictKeys(issues)
    /\ Goto(t, "l93")
    /\ UNCHANGED <<issues, embeddings_matrix, needs_rebuild>>

\* line 93: embeddings = [self._issues[key].embedding for key in self._issue_keys_order]
RebuildEmbeddings(t) ==
    /\ search[t].pc = "l93"
    /\ IF \A i \in 1..Len(issue_keys_order) : DictHas(issues, issue_keys_order[i])
       THEN search' = [search EXCEPT
                ![t].pc = "l94",
                ![t].embeddings = [i \in 1..Len(issue_keys_order) |->
                                      DictGet(issues, issue_keys_order[i]).embedding]]
       ELSE Finish(t, "KeyError")
    /\ StoreUntouched

\* line 94: self._embeddings_matrix = np.vstack(embeddings); an empty list raises
RebuildStack(t) ==
    /\ search[t].pc = "l94"
    /\ IF search[t].embeddings = <<>> \/ Ragged(search[t].embeddings)
       THEN Finish(t, "ValueError") /\ UNCHANGED embeddings_matrix
       ELSE Goto(t, "l95") /\ embeddings_matrix' = search[t].embeddings
    /\ UNCHANGED <<issues, issue_keys_order, needs_rebuild>>

\* line 95: self._needs_rebuild = False
RebuildClearFlag(t) ==
    /\ search[t].pc = "l95"
    /\ needs_rebuild' = FALSE
    /\ Goto(t, "l114")
    /\ UNCHANGED <<issues, embeddings_matrix, issue_keys_order>>

\* lines 114-115: nothing to search, return []
CheckEmpty(t) ==
    /\ search[t].pc = "l114"
    /\ IF embeddings_matrix = NoMatrix \/ Len(issues) = 0
       THEN Finish(t, "list")
       ELSE Goto(t, "l122")
    /\ StoreUntouched

\* lines 118-129: the scores of the rows of the matrix as it is now, and their order
Score(t) ==
    /\ search[t].pc = "l122"
    /\ IF embeddings_matrix = NoMatrix
       THEN Finish(t, "TypeError")
       ELSE \E order \in ArgSorts(Similarities(embeddings_matrix, ThreadQuery)) :
               search' = [search EXCEPT
                   ![t].pc = "l132",
                   ![t].similarities = Similarities(embeddings_matrix, ThreadQuery),
                   ![t].top_indices = TopIndices(order)]
    /\ StoreUntouched

\* lines 131-133: issue_key = self._issue_keys_order[idx]
ReadKey(t) ==
    /\ search[t].pc = "l132"
    /\ LET idx == Head(search[t].top_indices) IN
       IF idx > Len(issue_keys_order)
       THEN Finish(t, "IndexError")
       ELSE search' = [search EXCEPT ![t].pc = "l134",
                                     ![t].issue_key = issue_keys_order[idx]]
    /\ StoreUntouched

\* lines 134-141: issue = self._issues[issue_key], append, break or go on, return
ReadRecord(t) ==
    /\ search[t].pc = "l134"
    /\ LET idx == Head(search[t].top_indices)
           rest == Tail(search[t].top_indices)
       IN IF ~DictHas(issues, search[t].issue_key)
          THEN Finish(t, "KeyError")
          ELSE LET r == Append(search[t].results,
                               [record |-> DictGet(issues, search[t].issue_key),
                                similarity |-> search[t].similarities[idx],
                                row |-> idx])
               IN search' = [search EXCEPT
                      ![t].results = r,
                      ![t].top_indices = rest,
                      ![t].pc = IF Len(r) >= MaxK \/ rest = <<>> THEN "done" ELSE "l132",
                      ![t].outcome = IF Len(r) >= MaxK \/ rest = <<>>
                                     THEN "list" ELSE "None"]
    /\ StoreUntouched

\* add_issue, line 66: self._issues[issue.issue_key] = issue
WriterStore ==
    /\ writer.pc = "idle"
    /\ \E issue \in ThreadRecords :
          /\ issue.issue_key \notin writer.added
          /\ issues' = DictSet(issues, issue)
          /\ writer' = [writer EXCEPT !.pc = "l67",
                                      !.added = @ \cup {issue.issue_key}]
    /\ UNCHANGED <<embeddings_matrix, issue_keys_order, needs_rebuild>>

\* add_issue, line 67: self._needs_rebuild = True
WriterMarkAdded ==
    /\ writer.pc = "l67"
    /\ needs_rebuild' = TRUE
    /\ writer' = [writer EXCEPT !.pc = "idle"]
    /\ UNCHANGED <<issues, embeddings_matrix, issue_keys_order>>

\* delete_issue, line 75: if issue_key in self._issues (else line 79: return False)
WriterCheck ==
    /\ writer.pc = "idle"
    /\ \E issue_key \in Keys \ writer.removed :
          writer' = [writer EXCEPT
                        !.pc = IF DictHas(issues, issue_key) THEN "l76" ELSE "idle",
                        !.issue_key = issue_key,
                        !.removed = @ \cup {issue_key}]
    /\ StoreUntouched

\* delete_issue, line 76: del self._issues[issue_key]
WriterDelete ==
    /\ writer.pc = "l76"
    /\ issues' = DictDel(issues, writer.issue_key)
    /\ writer' = [writer EXCEPT !.pc = "l77"]
    /\ UNCHANGED <<embeddings_matrix, issue_keys_order, needs_rebuild>>

\* delete_issue, lines 77-78: self._needs_rebuild = True, return True
WriterMarkDeleted ==
    /\ writer.pc = "l77"
    /\ needs_rebuild' = TRUE
    /\ writer' = [writer EXCEPT !.pc = "idle"]
    /\ UNCHANGED <<issues, embeddings_matrix, issue_keys_order>>

SearcherStep(t) ==
    \/ Call(t)
    \/ CheckStale(t)
    \/ RebuildCheckEmpty(t)
    \/ RebuildDropMatrix(t)
    \/ RebuildDropKeys(t)
    \/ RebuildKeys(t)
    \/ RebuildEmbeddings(t)
    \/ RebuildStack(t)
    \/ RebuildClearFlag(t)
    \/ CheckEmpty(t)
    \/ Score(t)
    \/ ReadKey(t)
    \/ ReadRecord(t)

WriterStep ==
    \/ WriterStore
    \/ WriterMarkAdded
    \/ WriterCheck
    \/ WriterDelete
    \/ WriterMarkDeleted

NextThreads ==
    \/ /\ \E t \in Searchers : SearcherStep(t)
       /\ UNCHANGED <<writer, fresh, replaced, deleted, lastOp, ret,
                      ledgerVars, webhookVars, suggestVars, durableVars>>
    \/ /\ WriterStep
       /\ UNCHANGED <<search, fresh, replaced, deleted, lastOp, ret,
                      ledgerVars, webhookVars, suggestVars, durableVars>>

SpecThreads == Init /\ [][NextThreads]_vars

-----------------------------------------------------------------------------
(* Properties of the store under concurrent calls *)

\* C20: with add_issue or delete_issue running beside find_similar, no
\* search fails on a missing key, a missing matrix or a row out of range,
\* and every search reads its keys from a key list that has one key for
\* each row of the matrix it scored: the two are published as one unit.
C20_SearchSeesOneRebuild ==
    \A t \in Searchers :
        /\ search[t].outcome \in {"None", "list"}
        /\ search[t].pc \in {"l132", "l134"} =>
              Len(issue_keys_order) = Len(search[t].similarities)
        /\ \A i \in 1..Len(search[t].results) :
              /\ search[t].results[i].row <= Len(issue_keys_order)
              /\ DictHas(issues, search[t].results[i].record.issue_key)

-----------------------------------------------------------------------------
(* VectorDatabase.add_issue called from two threads.  The class takes no   *)
(* lock and the callers share one connection, one cursor and one index.    *)

NextWriters ==
    \/ /\ \E c \in Callers : AddIssueCommit(c)
       /\ UNCHANGED <<storeVars, ledgerVars, webhookVars, suggestVars, threadVars>>
    \/ /\ \E c \in Callers : AddIssueAppend(c)
       /\ UNCHANGED <<storeVars, ledgerVars, webhookVars, suggestVars, threadVars>>
    \/ /\ \E c \in Callers : AddIssueSave(c)
       /\ UNCHANGED <<storeVars, ledgerVars, webhookVars, suggestVars, threadVars>>
    \/ /\ SearchSimilar
       /\ UNCHANGED <<storeVars, ledgerVars, webhookVars, suggestVars, threadVars>>

SpecWriters == Init /\ [][NextWriters]_vars

\* C21: two add_issue calls running at once do not interleave their two
\* writes: rows are committed in the order the vectors are appended, so
\* once both calls are over (keys never re-used) vector N was added under
\* the key of row N and a search reports that key.
C21_WritesDoNotInterleave ==
    (AllIdle /\ ~durable_hist.reused) =>
        /\ VectorsMatchRows
        /\ AfterSearchSimilar => SearchPairsOwners

-----------------------------------------------------------------------------
(* The key order list and the matrix of the transient store *)

\* C22: in every state reached by add_issue, delete_issue, clear and
\* find_similar run one at a time, the key order list and the matrix have
\* the same number of rows (none when the matrix is None), and while the
\* dirty flag is false the key order list holds exactly the keys of the
\* record mapping and row i of the matrix is the embedding stored under key i.
C22_KeysMatchMatrix ==
    /\ Len(issue_keys_order) = Len(embeddings_matrix)
    /\ ~needs_rebuild =>
          /\ Len(issue_keys_order) = Len(issues)
          /\ Range(issue_keys_order) = Range(DictKeys(issues))
          /\ \A i \in 1..Len(issue_keys_order) :
                embeddings_matrix[i] = DictGet(issues, issue_keys_order[i]).embedding

-----------------------------------------------------------------------------
(* The dirty flag under concurrent calls *)

\* No thread is between the reading of the key list and the clearing of
\* the flag, and the writer is between calls
NoRebuildRunning ==
    /\ writer.pc = "idle"
    /\ \A t \in Searchers : search[t].pc \notin {"l93", "l94", "l95"}

\* Every stored record has its row in the matrix, and no other key has one
MatrixTookAllWrites ==
    /\ Range(issue_keys_order) = Range(DictKeys(issues))
    /\ Len(issue_keys_order) = Len(embeddings_matrix)
    /\ \A i \in 1..Len(issue_keys_order) :
          DictHas(issues, issue_keys_order[i]) =>
             embeddings_matrix[i] = DictGet(issues, issue_keys_order[i]).embedding

\* C23: a rebuild never clears a dirty flag set by an add_issue or
\* delete_issue it did not take into account: once the rebuild has
\* finished, the flag is still true or the matrix holds the written record.
C23_RebuildKeepsLaterFlag ==
    NoRebuildRunning => (needs_rebuild \/ MatrixTookAllWrites)

-----------------------------------------------------------------------------
(* What find_similar returns, as a whole *)

\* The keys of the stored records the last search did not exclude
Candidates == Range(DictKeys(issues)) \ lastOp.exclude

Smaller(a, b) == IF a <= b THEN a ELSE b

\* C24: find_similar returns exactly the first min(k, m) records of the
\* similarity-descending order after exclusion, m being the number of
\* stored records whose key is not excluded: never more than k entries, and
\* an empty sequence, no error, when the store is empty or every record is
\* excluded.
C24_FirstOfDescendingOrder ==
    AfterFindSimilar =>
        /\ ret.kind = "list"
        /\ Len(ret.val) = Smaller(lastOp.top_k, Cardinality(Candidates))
        /\ ReturnedKeys \subseteq Candidates
        /\ \A i, j \in 1..Len(ret.val) :
              i < j => /\ ret.val[i].record.issue_key # ret.val[j].record.issue_key
                       /\ SimLeq(ret.val[j].similarity, ret.val[i].similarity)
        /\ \A i \in 1..Len(ret.val) :
              /\ ret.val[i].record = DictGet(issues, ret.val[i].record.issue_key)
              /\ ret.val[i].similarity = StoredSimilarity(ret.val[i].record.issue_key)
              /\ \A y \in Candidates \ ReturnedKeys :
                    SimLeq(StoredSimilarity(y), ret.val[i].similarity)

-----------------------------------------------------------------------------
(* delete_issue on a key that is not stored *)

\* C25: delete_issue on a key that is not in the store returns false and
\* changes nothing: the record mapping, the dense matrix, the key order
\* list and the dirty flag are left as they were, so a clean matrix stays
\* clean.
C25_AbsentDeleteChangesNothing ==
    [][(lastOp'.op = "delete_issue" /\ ~lastOp'.existed) =>
          /\ ret' = [kind |-> "bool", val |-> FALSE]
          /\ UNCHANGED <<issues, embeddings_matrix, issue_keys_order, needs_rebuild>>]_vars

\* delete_issue returned false on an absent key while another record had
\* its row in a clean matrix
C25_Witness ==
    /\ lastOp.op = "delete_issue"
    /\ ~lastOp.existed
    /\ ret = [kind |-> "bool", val |-> FALSE]
    /\ ~needs_rebuild
    /\ Len(issues) >= 1
    /\ Len(embeddings_matrix) = Len(issues)

====
